---- MODULE Spec2Model ----
(***************************************************************************)
(* dynamics_and_models.py: VehicleDynamics, EnvironmentModel and           *)
(* ReferencePath of the intersection-crossing model.                       *)
(*                                                                         *)
(* Numbers.  A real number v is held as the integer v * Unit (three        *)
(* decimals: metres -> millimetres, degrees -> millidegrees, ...).  Sums   *)
(* and differences are exact; a product or a quotient is rounded towards   *)
(* zero to the grid (fmul, fdiv), so that -(x*y) and (-x)*y agree as they  *)
(* do in floating point.  An expression that converts degrees to radians   *)
(* and back is evaluated in degrees.  Batches are sequences of rows, a row *)
(* is the flat vector of the source, and index i of the source is index    *)
(* i+1 here.                                                               *)
(***************************************************************************)
EXTENDS Integers, Sequences, FiniteSets, TLC

Unit == 10 * 10 * 10

Abs(v) == IF v < 0 THEN -v ELSE v

Sgn(v) == IF v < 0 THEN -1 ELSE 1

Min(v, w) == IF v <= w THEN v ELSE w

Max(v, w) == IF v >= w THEN v ELSE w

\* v * n / d rounded towards zero, for small n and d (n * d below 2^31).
MulDiv(v, n, d) ==
    LET s == Sgn(v) * Sgn(n) * Sgn(d)
        av == Abs(v)
        an == Abs(n)
        ad == Abs(d)
    IN s * ((av \div ad) * an + ((av % ad) * an) \div ad)

\* the product of two grid numbers, rounded towards zero to the grid
fmul(v, w) ==
    IF Abs(v) >= Abs(w) THEN MulDiv(v, w, Unit) ELSE MulDiv(w, v, Unit)

\* the quotient of two grid numbers, rounded towards zero to the grid:
\* long division, one decimal at a time (|w| below 2^31 / 10)
fdiv(v, w) ==
    LET s == Sgn(v) * Sgn(w)
        av == Abs(v)
        aw == Abs(w)
        q0 == av \div aw
        r0 == av % aw
        q1 == q0 * 10 + (r0 * 10) \div aw
        r1 == (r0 * 10) % aw
        q2 == q1 * 10 + (r1 * 10) \div aw
        r2 == (r1 * 10) % aw
        q3 == q2 * 10 + (r2 * 10) \div aw
    IN s * q3

\* np.square
square(v) == fmul(v, v)

RECURSIVE SqrtDown(_, _)
SqrtDown(v, r) ==
    LET nx == (r + fdiv(v, r)) \div 2
    IN IF nx >= r THEN r ELSE SqrtDown(v, nx)

\* np.sqrt of a non-negative grid number (Newton's iteration from above)
sqrt(v) == IF v <= 0 THEN 0 ELSE SqrtDown(v, Max(v, Unit))

\* pi as the fraction 355/113
PiNum == 355

PiDen == 113

\* radians -> degrees (x * 180 / pi)
ToDeg(v) == MulDiv(v, 180 * PiDen, PiNum)

\* degrees -> radians (x * pi / 180)
ToRad(v) == MulDiv(v, PiNum, 180 * PiDen)

\* sin of an angle in [0, 180] degrees: 4p / (40500 - p) with p = x (180 - x)
\* (Bhaskara's rational form; exact at 0, 30, 90, 150 and 180 degrees)
SinHalfTurn(d) ==
    LET p == fmul(d, 180 * Unit - d)
    IN fdiv(4 * p, 40500 * Unit - p)

\* np.sin(phi * pi / 180) for phi in degrees
sin_deg(phi) ==
    LET m == phi % (360 * Unit)
    IN IF m <= 180 * Unit THEN SinHalfTurn(m) ELSE -SinHalfTurn(m - 180 * Unit)

\* np.cos(phi * pi / 180) for phi in degrees
cos_deg(phi) == sin_deg(phi + 90 * Unit)

\* arctan of a ratio z in [0, 1], in degrees:
\* 45 z - z (z - 1) (14.02 + 3.80 z)
AtanUnit(z) ==
    45 * z - fmul(fmul(z, z - Unit), 14020 + fmul(3800, z))

\* np.arctan2(dy, dx) * 180 / pi
arctan2_deg(dy, dx) ==
    LET ax == Abs(dx)
        ay == Abs(dy)
        base == IF ax = 0 /\ ay = 0 THEN 0
                ELSE IF ay <= ax THEN AtanUnit(fdiv(ay, ax))
                ELSE 90 * Unit - AtanUnit(fdiv(ax, ay))
        turn == IF dx >= 0 THEN base ELSE 180 * Unit - base
    IN IF dy < 0 THEN -turn ELSE turn

\* a lazily described array, laid out
array(f) == SubSeq(f, 1, Len(f))

\* np.clip
clip(v, lo, hi) == IF v < lo THEN lo ELSE IF v > hi THEN hi ELSE v

\* None where a name is otherwise held
None == "None"

\* None where an array, or a tuple of arrays, is otherwise held (no array of
\* the model is empty)
NoneArray == <<>>

(***************************************************************************)
(* endtoend_env_utils (imported at line 19): the scene's configuration.    *)
(***************************************************************************)
L == 4800

W == 2000

CROSSROAD_SIZE == 50000

LANE_WIDTH == 3750

LANE_NUMBER == 3

VEHICLE_MODE_LIST ==
    [left |-> <<"dl", "du", "ul">>,
     straight |-> <<"dl", "ud", "ru">>,
     right |-> <<"dr", "ur">>]

Tasks == {"left", "straight", "right"}

(***************************************************************************)
(* VehicleDynamics                                                         *)
(***************************************************************************)
vehicle_params ==
    [C_f |-> -128915500,
     C_r |-> -85943600,
     a |-> 1060,
     b |-> 1850,
     mass |-> 1412000,
     I_z |-> 1536700,
     miu |-> 1000,
     g |-> 9810]

\* the rear longitudinal force without the split of line 54
F_xr_whole(a_x) == fmul(vehicle_params.mass, a_x)

\* front longitudinal force for acceleration a_x (np.where(a_x < 0, ...))
F_xf(a_x) ==
    IF a_x < 0 THEN fmul(vehicle_params.mass, a_x) \div 2 ELSE 0

\* rear longitudinal force for acceleration a_x
F_xr(a_x) ==
    IF a_x < 0 THEN fmul(vehicle_params.mass, a_x) \div 2
    ELSE fmul(vehicle_params.mass, a_x)

\* one row of f_xu: the next [v_x, v_y, r, x, y, phi]
f_xu_row(state, action, tau) ==
    LET v_x == state[1]
        v_y == state[2]
        r == state[3]
        x == state[4]
        y == state[5]
        phi == state[6]
        steer == action[1]
        a_x == action[2]
        C_f == vehicle_params.C_f
        C_r == vehicle_params.C_r
        a == vehicle_params.a
        b == vehicle_params.b
        mass == vehicle_params.mass
        I_z == vehicle_params.I_z
        aCf_bCr == fmul(a, C_f) - fmul(b, C_r)
    IN << v_x + fmul(tau, a_x + fmul(v_y, r)),
          fdiv(fmul(fmul(mass, v_y), v_x) + fmul(fmul(tau, aCf_bCr), r)
                 - fmul(fmul(fmul(tau, C_f), steer), v_x)
                 - fmul(fmul(fmul(tau, mass), square(v_x)), r),
               fmul(mass, v_x) - fmul(tau, C_f + C_r)),
          fdiv(-fmul(fmul(I_z, r), v_x) - fmul(fmul(tau, aCf_bCr), v_y)
                 + fmul(fmul(fmul(fmul(tau, a), C_f), steer), v_x),
               fmul(tau, fmul(square(a), C_f) + fmul(square(b), C_r))
                 - fmul(I_z, v_x)),
          x + fmul(tau, fmul(v_x, cos_deg(phi)) - fmul(v_y, sin_deg(phi))),
          y + fmul(tau, fmul(v_x, sin_deg(phi)) + fmul(v_y, cos_deg(phi))),
          phi + ToDeg(fmul(tau, r)) >>

\* f_xu with np.sin and np.cos exchanged in lines 66-67
f_xu_sin_cos_exchanged(states, actions, tau) ==
    array([i \in 1..Len(states) |->
        [f_xu_row([states[i] EXCEPT ![6] = 90 * Unit - @], actions[i], tau)
           EXCEPT ![6] = @ - (90 * Unit - states[i][6]) + states[i][6]]])

\* f_xu over the batch (the tyre diagnostics are returned beside it and
\* dropped by every caller)
f_xu(states, actions, tau) ==
    array([i \in 1..Len(states) |-> f_xu_row(states[i], actions[i], tau)])

prediction(x_1, u_1, frequency) == f_xu(x_1, u_1, fdiv(Unit, frequency))

(***************************************************************************)
(* ReferencePath                                                           *)
(***************************************************************************)
\* the arrays of _construct_ref_path are built on a grid a hundred times
\* finer than Unit, so that the bearing between two neighbouring samples
\* (3 cm apart) is resolved; the stored x and y are rounded to Unit.
Fine == 10 * 10

\* straight length [m]
sl == 40

meter_pointnum_ratio == 30

\* np.linspace(lo, hi, num)[i]
linspace(lo, hi, num, i) == lo + MulDiv(hi - lo, i, num - 1)

\* bezier.Curve(node, degree=3).evaluate_multi(s_vals), one coordinate at
\* s = i / (num - 1): de Casteljau's scheme on the four control values
evaluate_multi(c, num, i) ==
    LET m == num - 1
        mix(p, q) == p + MulDiv(q - p, i, m)
        c01 == mix(c[1], c[2])
        c12 == mix(c[2], c[3])
        c23 == mix(c[3], c[4])
    IN mix(mix(c01, c12), mix(c12, c23))

\* int(pi / 2 * radius)
int_quarter_arc(radius) == MulDiv(radius, PiNum, 2 * PiDen) \div Unit

end_offsets(maneuver) ==
    IF maneuver = "right"
    THEN [i \in 1..LANE_NUMBER |-> -((LANE_WIDTH * (2 * (i - 1) + 1)) \div 2)]
    ELSE [i \in 1..LANE_NUMBER |-> (LANE_WIDTH * (2 * (i - 1) + 1)) \div 2]

start_offset(maneuver) ==
    IF maneuver = "left" THEN LANE_WIDTH \div 2
    ELSE IF maneuver = "straight" THEN (LANE_WIDTH * 3) \div 2
    ELSE (LANE_WIDTH * (2 * LANE_NUMBER - 1)) \div 2

\* CROSSROAD_SIZE/3 (CROSSROAD_SIZE/5 for 'right'), on the fine grid
control_ext(maneuver) ==
    IF maneuver = "right" THEN (CROSSROAD_SIZE * Fine) \div 5
    ELSE (CROSSROAD_SIZE * Fine) \div 3

\* len(s_vals): the number of samples of the curve
curve_pointnum(maneuver) ==
    IF maneuver = "left"
    THEN int_quarter_arc(CROSSROAD_SIZE \div 2 + LANE_WIDTH \div 2) * meter_pointnum_ratio
    ELSE IF maneuver = "straight"
    THEN (CROSSROAD_SIZE \div Unit) * meter_pointnum_ratio
    ELSE int_quarter_arc(CROSSROAD_SIZE \div 2
                           - (LANE_WIDTH * (2 * LANE_NUMBER - 1)) \div 2)
           * meter_pointnum_ratio

\* the x and the y samples (fine grid) of one candidate path of a task:
\* the start line, the Bezier curve and the end line, concatenated
raw_xs(maneuver, end_offset) ==
    LET half == (CROSSROAD_SIZE \div 2) * Fine
        so == start_offset(maneuver) * Fine
        eo == end_offset * Fine
        ext == control_ext(maneuver)
        num == sl * meter_pointnum_ratio
        cnum == curve_pointnum(maneuver)
        node_x == IF maneuver = "left" THEN <<so, so, -half + ext, -half>>
                  ELSE IF maneuver = "straight" THEN <<so, so, eo, eo>>
                  ELSE <<so, so, half - ext, half>>
        trj_x == [i \in 1..cnum |-> evaluate_multi(node_x, cnum, i - 1)]
        start_straight_line_x == [i \in 1..(num - 1) |-> so]
        end_straight_line_x ==
            IF maneuver = "left"
            THEN [i \in 1..(num - 1) |-> linspace(-half, -half - sl * Unit * Fine, num, i)]
            ELSE IF maneuver = "straight" THEN [i \in 1..(num - 1) |-> eo]
            ELSE [i \in 1..(num - 1) |-> linspace(half, half + sl * Unit * Fine, num, i)]
    IN array(start_straight_line_x) \o array(trj_x) \o array(end_straight_line_x)

raw_ys(maneuver, end_offset) ==
    LET half == (CROSSROAD_SIZE \div 2) * Fine
        eo == end_offset * Fine
        ext == control_ext(maneuver)
        num == sl * meter_pointnum_ratio
        cnum == curve_pointnum(maneuver)
        node_y == IF maneuver = "straight" THEN <<-half, -half + ext, half - ext, half>>
                  ELSE <<-half, -half + ext, eo, eo>>
        trj_y == [i \in 1..cnum |-> evaluate_multi(node_y, cnum, i - 1)]
        start_straight_line_y ==
            [i \in 1..(num - 1) |-> linspace(-half - sl * Unit * Fine, -half, num, i - 1)]
        end_straight_line_y ==
            IF maneuver = "straight"
            THEN [i \in 1..(num - 1) |-> linspace(half, half + sl * Unit * Fine, num, i)]
            ELSE [i \in 1..(num - 1) |-> eo]
    IN array(start_straight_line_y) \o array(trj_y) \o array(end_straight_line_y)

\* xs_1, ys_1 = xs[:-1], ys[:-1] and phis_1 = arctan2(ys[1:] - ys[:-1],
\* xs[1:] - xs[:-1]) * 180 / pi, the x and y stored rounded to Unit
planed_trj_of(raw_x, raw_y) ==
    << array([i \in 1..(Len(raw_x) - 1) |-> MulDiv(raw_x[i], 1, Fine)]),
       array([i \in 1..(Len(raw_x) - 1) |-> MulDiv(raw_y[i], 1, Fine)]),
       array([i \in 1..(Len(raw_x) - 1) |->
                 arctan2_deg(raw_y[i + 1] - raw_y[i], raw_x[i + 1] - raw_x[i])]) >>

\* one candidate path (xs_1, ys_1, phis_1) of a task, for one end_offset
planed_trj(maneuver, end_offset) ==
    planed_trj_of(raw_xs(maneuver, end_offset), raw_ys(maneuver, end_offset))

\* self.path_list after _construct_ref_path(task)
_construct_ref_path(maneuver) ==
    array([k \in 1..LANE_NUMBER |-> planed_trj(maneuver, end_offsets(maneuver)[k])])

\* the candidate paths of each maneuver class, built once
path_lists ==
    [left |-> _construct_ref_path("left"),
     straight |-> _construct_ref_path("straight"),
     right |-> _construct_ref_path("right")]

\* ReferencePath.exp_v and EnvironmentModel.exp_v
exp_v == 8000

\* a ReferencePath object: self.path refers either to an entry of
\* self.path_list (by its index) or to an array handed to set_path
StaticPath(k) == [src |-> "path_list", idx |-> k]

GivenPath(p) == [src |-> "given", data |-> p]

\* ReferencePath.__init__(task, ref_index=ref_index); without ref_index the
\* index is np.random.choice(len(self.path_list)), chosen by the caller here
ReferencePath(task, ref_index) ==
    [task |-> task, traj_mode |-> None, ref_index |-> ref_index,
     path |-> StaticPath(ref_index)]

\* the arrays self.path refers to
path_of(rp) ==
    IF rp.path.src = "path_list" THEN path_lists[rp.task][rp.path.idx + 1]
    ELSE rp.path.data

\* set_path: the ReferencePath after the call
set_path(rp, traj_mode, path_index, path) ==
    IF traj_mode = "dyna_traj"
    THEN [rp EXCEPT !.traj_mode = traj_mode, !.path = GivenPath(path)]
    ELSE IF traj_mode = "static_traj"
    THEN [rp EXCEPT !.traj_mode = traj_mode, !.ref_index = path_index,
                    !.path = StaticPath(path_index)]
    ELSE [rp EXCEPT !.traj_mode = traj_mode]

deal_with_phi_diff(phi_diff) ==
    LET d1 == IF phi_diff > 180 * Unit THEN phi_diff - 360 * Unit ELSE phi_diff
    IN IF d1 < -180 * Unit THEN d1 + 360 * Unit ELSE d1

\* indexs2points for one index (0-based, as in the source)
indexs2points(path, index) ==
    LET i0 == IF index >= 0 THEN index ELSE 0
        i1 == IF i0 < Len(path[1]) THEN i0 ELSE Len(path[1]) - 1
    IN <<path[1][i1 + 1], path[2][i1 + 1], path[3][i1 + 1]>>

\* one entry of dist_array: the squared distance from (x, y) to the sample
\* k of the reduced path, on a grid of 8 Units so that it stays below 2^31
dist_array(path, x, y, ratio, k) ==
    ((x - path[1][k * ratio + 1]) \div 8) * ((x - path[1][k * ratio + 1]) \div 8)
      + ((y - path[2][k * ratio + 1]) \div 8) * ((y - path[2][k * ratio + 1]) \div 8)

\* the smaller of two <<distance, index>> pairs, the right one on a tie
last_min(l, r) == IF r[1] <= l[1] THEN r ELSE l

\* the smaller of two <<distance, index>> pairs, the left one on a tie
first_min(l, r) == IF r[1] < l[1] THEN r ELSE l

\* np.argmin over the reduced indices lo..hi, with the minimum: the first
\* index of the minimum
RECURSIVE argmin_dist(_, _, _, _, _, _)
argmin_dist(path, x, y, ratio, lo, hi) ==
    IF lo = hi THEN <<dist_array(path, x, y, ratio, lo), lo>>
    ELSE first_min(argmin_dist(path, x, y, ratio, lo, (lo + hi) \div 2),
                   argmin_dist(path, x, y, ratio, (lo + hi) \div 2 + 1, hi))

\* the default stride of find_closest_point
ratio_default == 10

\* find_closest_point for one query point: the index (the point is
\* indexs2points of it)
find_closest_point(path, x, y, ratio) ==
    LET path_len == Len(path[1])
        reduced_len == (path_len + ratio - 1) \div ratio
    IN argmin_dist(path, x, y, ratio, 0, reduced_len - 1)[2] * ratio

\* the look-ahead step of future_n_data
future_step == 80

\* future_n_data with range(n - 1) in line 668
RECURSIVE future_n_data_one_short(_, _, _)
future_n_data_one_short(path, current_indexs, n) ==
    IF n <= 1 THEN <<>>
    ELSE LET adv == current_indexs + future_step
             cur == IF adv >= Len(path[1]) - 2 THEN Len(path[1]) - 2 ELSE adv
         IN <<indexs2points(path, cur)>>
              \o future_n_data_one_short(path, cur, n - 1)

\* future_n_data for one (scalar) index: the n look-ahead points
RECURSIVE future_n_data(_, _, _)
future_n_data(path, current_indexs, n) ==
    IF n <= 0 THEN <<>>
    ELSE LET adv == current_indexs + future_step
             cur == IF adv >= Len(path[1]) - 2 THEN Len(path[1]) - 2 ELSE adv
         IN <<indexs2points(path, cur)>> \o future_n_data(path, cur, n - 1)

\* two2one of tracking_error_vector
two2one(task, ego_xs, ego_ys, ref_xs, ref_ys) ==
    LET half == CROSSROAD_SIZE \div 2
    IN IF task = "left"
       THEN LET d0 == sqrt(square(ego_xs + half) + square(ego_ys + half))
                        - sqrt(square(ref_xs + half) + square(ref_ys + half))
                d1 == IF ego_ys < -half THEN ego_xs - ref_xs ELSE d0
                d2 == IF ego_xs < -half THEN ego_ys - ref_ys ELSE d1
            IN -d2
       ELSE IF task = "straight"
       THEN -(ego_xs - ref_xs)
       ELSE LET d0 == -(sqrt(square(ego_xs - half) + square(ego_ys + half))
                         - sqrt(square(ref_xs - half) + square(ref_ys + half)))
                d1 == IF ego_ys < -half THEN ego_xs - ref_xs ELSE d0
                d2 == IF ego_xs > half THEN -(ego_ys - ref_ys) ELSE d1
            IN -d2

\* what a tracking_error_vector call on a batch of `batch` rows raises:
\*  - int(current_indexs) in future_n_data (line 667) is given the whole
\*    index array, and only an array of one element converts;
\*  - np.concatenate is handed a generator at lines 710, 721 and 737.
tracking_error_vector_raises(rp, batch, n) ==
    IF batch > 1 THEN "TypeError"
    ELSE IF rp.traj_mode = "dyna_traj" THEN "TypeError"
    ELSE IF n > 0 THEN "TypeError"
    ELSE "none"

\* tracking_error_vector for one row when nothing is raised (n = 0, the
\* static branch): [two2one, wrapped heading deviation, speed deviation]
tracking_error_at(point, maneuver, ego_x, ego_y, ego_phi, ego_v) ==
    <<two2one(maneuver, ego_x, ego_y, point[1], point[2]),
      deal_with_phi_diff(ego_phi - point[3]),
      ego_v - exp_v>>

\* the point find_closest_point returns beside the index
closest_point(path, x, y) ==
    indexs2points(path, find_closest_point(path, x, y, ratio_default))

tracking_error_row(rp, ego_x, ego_y, ego_phi, ego_v) ==
    tracking_error_at(closest_point(path_of(rp), ego_x, ego_y), rp.task,
                      ego_x, ego_y, ego_phi, ego_v)

\* tracking_error_vector over the batch, when nothing is raised
tracking_error_vector(rp, ego_xs, ego_ys, ego_phis, ego_vs, n) ==
    array([i \in 1..Len(ego_xs) |->
        tracking_error_row(rp, ego_xs[i], ego_ys[i], ego_phis[i], ego_vs[i])])

(***************************************************************************)
(* EnvironmentModel                                                        *)
(***************************************************************************)
base_frequency == 10000

ego_info_dim == 6

per_veh_info_dim == 4

per_tracking_info_dim == 3

\* s[lo:hi] of the source
py_slice(s, lo, hi) == SubSeq(s, lo + 1, Min(hi, Len(s)))

\* the three segments of one row, as every method slices them
ego_infos_of(row) == py_slice(row, 0, ego_info_dim)

tracking_infos_of(row, n) ==
    py_slice(row, ego_info_dim, ego_info_dim + per_tracking_info_dim * (n + 1))

veh_infos_of(row, n) ==
    py_slice(row, ego_info_dim + per_tracking_info_dim * (n + 1), Len(row))

\* np.tile([ego_x, ego_y, 0, 0], veh_nums)[j]
ego_tile(row, j) ==
    IF j % per_veh_info_dim = 1 THEN row[4]
    ELSE IF j % per_veh_info_dim = 2 THEN row[5]
    ELSE 0

convert_vehs_to_rela_row(row, n) ==
    LET veh_infos == veh_infos_of(row, n)
    IN ego_infos_of(row) \o tracking_infos_of(row, n)
         \o [j \in 1..Len(veh_infos) |-> veh_infos[j] - ego_tile(row, j)]

convert_vehs_to_rela(obs_abso, n) ==
    array([i \in 1..Len(obs_abso) |-> convert_vehs_to_rela_row(obs_abso[i], n)])

convert_vehs_to_abso_row(row, n) ==
    LET veh_rela == veh_infos_of(row, n)
    IN ego_infos_of(row) \o tracking_infos_of(row, n)
         \o [j \in 1..Len(veh_rela) |-> veh_rela[j] + ego_tile(row, j)]

\* convert_vehs_to_abso with the ego position added to every pair of vehicle
\* columns (a tile of [x, y, x, y])
convert_vehs_to_abso_all_columns(obs_rela, n) ==
    array([i \in 1..Len(obs_rela) |->
        ego_infos_of(obs_rela[i]) \o tracking_infos_of(obs_rela[i], n)
          \o [j \in 1..Len(veh_infos_of(obs_rela[i], n)) |->
                veh_infos_of(obs_rela[i], n)[j]
                  + (IF j % 2 = 1 THEN obs_rela[i][4] ELSE obs_rela[i][5])]])

convert_vehs_to_abso(obs_rela, n) ==
    array([i \in 1..Len(obs_rela) |-> convert_vehs_to_abso_row(obs_rela[i], n)])

\* _action_transformation_for_end2end without the clip of line 117
_action_transformation_unclipped(actions) ==
    array([i \in 1..Len(actions) |->
        <<fmul(400, actions[i][1]), fmul(3000, actions[i][2]) - Unit>>])

_action_transformation_for_end2end(actions) ==
    array([i \in 1..Len(actions) |->
        LET steer_norm == clip(actions[i][1], -1050, 1050)
            a_xs_norm == clip(actions[i][2], -1050, 1050)
        IN <<fmul(400, steer_norm), fmul(3000, a_xs_norm) - Unit>>])

\* (L - W) / 2: ego_lws and veh_lws
lws == (L - W) \div 2

\* the front and rear points of a vehicle at (x, y) heading phi
front_point(x, y, phi) ==
    <<x + fmul(lws, cos_deg(phi)), y + fmul(lws, sin_deg(phi))>>

rear_point(x, y, phi) ==
    <<x - fmul(lws, cos_deg(phi)), y - fmul(lws, sin_deg(phi))>>

ego_points(ego_infos) ==
    <<front_point(ego_infos[4], ego_infos[5], ego_infos[6]),
      rear_point(ego_infos[4], ego_infos[5], ego_infos[6])>>

\* veh_nums of compute_rewards
veh_nums_of(veh_infos) == Len(veh_infos) \div per_veh_info_dim

\* veh2veh_dist: set to zeros at line 167 and not assigned again
veh2veh_dist == 0

\* veh2veh4training of one row: the loops over the vehicles, the two ego
\* points and the two vehicle points add the same term each time
veh2veh4training(veh_infos) ==
    veh_nums_of(veh_infos) * 2 * 2
      * (IF veh2veh_dist - 3500 < 0 THEN square(veh2veh_dist - 3500) ELSE 0)

veh2veh4real(veh_infos) ==
    veh_nums_of(veh_infos) * 2 * 2
      * (IF veh2veh_dist - 2500 < 0 THEN veh2veh_dist - 2500 ELSE 0)

\* np.where(logical_and(gate, clearance < 1), np.square(clearance - 1), 0)
road_term(gate, clearance) ==
    IF gate /\ clearance < Unit THEN square(clearance - Unit) ELSE 0

\* the four boundary terms that veh2road4training adds for one ego point
veh2road4training_point(task, pt) ==
    LET half == CROSSROAD_SIZE \div 2
    IN IF task = "left"
       THEN road_term(pt[2] < -half, pt[1])
          + road_term(pt[2] < -half, LANE_WIDTH - pt[1])
          + road_term(pt[1] < 0, LANE_WIDTH * LANE_NUMBER - pt[2])
          + road_term(pt[1] < -half, pt[2] - 0)
       ELSE IF task = "straight"
       THEN road_term(pt[2] < -half, pt[1] - LANE_WIDTH)
          + road_term(pt[2] < -half, 2 * LANE_WIDTH - pt[1])
          + road_term(pt[2] > half, LANE_WIDTH * LANE_NUMBER - pt[1])
          + road_term(pt[2] > half, pt[1] - 0)
       ELSE road_term(pt[2] < -half, pt[1] - 2 * LANE_WIDTH)
          + road_term(pt[2] < -half, LANE_NUMBER * LANE_WIDTH - pt[1])
          + road_term(pt[1] > half, 0 - pt[2])
          + road_term(pt[1] > half, pt[2] - (-LANE_WIDTH * LANE_NUMBER))

\* the four boundary terms that veh2road4real adds for one ego point
veh2road4real_point(task, pt) ==
    LET half == CROSSROAD_SIZE \div 2
    IN IF task = "left"
       THEN road_term(pt[2] < -half, pt[1])
          + road_term(pt[2] < -half, LANE_WIDTH - pt[1])
          + road_term(pt[1] < -half, LANE_WIDTH * LANE_NUMBER - pt[2])
          + road_term(pt[1] < -half, pt[2] - 0)
       ELSE IF task = "straight"
       THEN road_term(pt[2] < -half, pt[1] - LANE_WIDTH)
          + road_term(pt[2] < -half, 2 * LANE_WIDTH - pt[1])
          + road_term(pt[2] > half, LANE_WIDTH * LANE_NUMBER - pt[1])
          + road_term(pt[2] > half, pt[1] - 0)
       ELSE road_term(pt[2] < -half, pt[1] - 2 * LANE_WIDTH)
          + road_term(pt[2] < -half, LANE_NUMBER * LANE_WIDTH - pt[1])
          + road_term(pt[1] > half, 0 - pt[2])
          + road_term(pt[1] > half, pt[2] - (-LANE_WIDTH * LANE_NUMBER))

veh2road4training(task, ego_infos) ==
    veh2road4training_point(task, ego_points(ego_infos)[1])
      + veh2road4training_point(task, ego_points(ego_infos)[2])

veh2road4real(task, ego_infos) ==
    veh2road4real_point(task, ego_points(ego_infos)[1])
      + veh2road4real_point(task, ego_points(ego_infos)[2])

\* rewards of one row (lines 144-155 and 250-251)
rewards_row(ego_infos, tracking_infos, action) ==
    LET punish_steer == -square(action[1])
        punish_a_x == -square(action[2])
        punish_yaw_rate == -square(ego_infos[3])
        devi_y == -square(tracking_infos[1])
        devi_phi == -square(ToRad(tracking_infos[2]))
        devi_v == -square(tracking_infos[3])
    IN fmul(50, devi_v) + fmul(800, devi_y) + 30 * devi_phi
         + fmul(20, punish_yaw_rate) + 5 * punish_steer + fmul(50, punish_a_x)

\* compute_rewards on one row with the training penalty taken off the reward
compute_rewards_row_penalised(row, action, task, n) ==
    LET abso == convert_vehs_to_abso_row(row, n)
        ego_infos == ego_infos_of(abso)
        tracking_infos == tracking_infos_of(abso, n)
        veh_infos == veh_infos_of(abso, n)
    IN [rewards |->
            rewards_row(ego_infos, tracking_infos, action)
              - (veh2veh4training(veh_infos) + veh2road4training(task, ego_infos)),
        punish_term_for_training |->
            veh2veh4training(veh_infos) + veh2road4training(task, ego_infos),
        real_punish_term |->
            veh2veh4real(veh_infos) + veh2road4real(task, ego_infos),
        veh2veh4real |-> veh2veh4real(veh_infos),
        veh2road4real |-> veh2road4real(task, ego_infos)]

\* compute_rewards on one row of the held (relative) observations: the
\* five values returned for it
compute_rewards_row(row, action, task, n) ==
    LET abso == convert_vehs_to_abso_row(row, n)
        ego_infos == ego_infos_of(abso)
        tracking_infos == tracking_infos_of(abso, n)
        veh_infos == veh_infos_of(abso, n)
    IN [rewards |-> rewards_row(ego_infos, tracking_infos, action),
        punish_term_for_training |->
            veh2veh4training(veh_infos) + veh2road4training(task, ego_infos),
        real_punish_term |->
            veh2veh4real(veh_infos) + veh2road4real(task, ego_infos),
        veh2veh4real |-> veh2veh4real(veh_infos),
        veh2road4real |-> veh2road4real(task, ego_infos)]

\* what the slicing and the conversion of a batch of such rows raise: a
\* row too short for the ego and the three tracking columns fails a
\* subscript (lines 150-155), and a vehicle segment whose width is no
\* multiple of four cannot be broadcast against the tiled ego position
\* (line 317; a width of one, which broadcasts to an empty array, is not
\* among the rows handed in)
obses_width_raises(row, n) ==
    IF Len(row) < ego_info_dim + per_tracking_info_dim THEN "IndexError"
    ELSE IF Len(veh_infos_of(row, n)) % per_veh_info_dim # 0 THEN "ValueError"
    ELSE "none"

\* what compute_rewards raises on the observations held
compute_rewards_raises(obses, n) == obses_width_raises(obses[1], n)

compute_rewards(obses, actions, task, n) ==
    array([i \in 1..Len(obses) |-> compute_rewards_row(obses[i], actions[i], task, n)])

\* ego_predict without the clip of line 327
ego_predict_unclipped(ego_infos, actions) ==
    array(prediction(ego_infos, actions, base_frequency))

ego_predict(ego_infos, actions) ==
    LET ego_next_infos == prediction(ego_infos, actions, base_frequency)
    IN array([i \in 1..Len(ego_infos) |->
          [ego_next_infos[i] EXCEPT ![1] = clip(ego_next_infos[i][1], 0, 35000)]])

\* the vehicle is inside the central square, its boundary excluded
middle_cond(veh_xs, veh_ys) ==
    (veh_xs > -(CROSSROAD_SIZE \div 2) /\ veh_xs < CROSSROAD_SIZE \div 2)
      /\ (veh_ys > -(CROSSROAD_SIZE \div 2) /\ veh_ys < CROSSROAD_SIZE \div 2)

\* lines 362-367 with the two radii exchanged
veh_phis_rad_delta_radii_exchanged(veh_vs, veh_mode, middle) ==
    IF veh_mode \in {"dl", "rd", "ur", "lu"}
    THEN IF middle
         THEN fdiv(fdiv(veh_vs, CROSSROAD_SIZE \div 2 - (LANE_WIDTH * 5) \div 2),
                   base_frequency)
         ELSE 0
    ELSE IF veh_mode \in {"dr", "ru", "ul", "ld"}
    THEN IF middle
         THEN -fdiv(fdiv(veh_vs, CROSSROAD_SIZE \div 2 + LANE_WIDTH \div 2),
                    base_frequency)
         ELSE 0
    ELSE 0

\* the change of heading in radians: by the mode inside the central square,
\* none elsewhere and none for any other mode
veh_phis_rad_delta(veh_vs, veh_mode, middle) ==
    IF veh_mode \in {"dl", "rd", "ur", "lu"}
    THEN IF middle
         THEN fdiv(fdiv(veh_vs, CROSSROAD_SIZE \div 2 + LANE_WIDTH \div 2),
                   base_frequency)
         ELSE 0
    ELSE IF veh_mode \in {"dr", "ru", "ul", "ld"}
    THEN IF middle
         THEN -fdiv(fdiv(veh_vs, CROSSROAD_SIZE \div 2 - (LANE_WIDTH * 5) \div 2),
                    base_frequency)
         ELSE 0
    ELSE 0

\* lines 370-371 without line 370
wrap_phis_from_below(next_veh_phis) ==
    IF next_veh_phis <= -180 * Unit THEN next_veh_phis + 360 * Unit
    ELSE next_veh_phis

\* lines 370-371 in degrees: a turn less above pi, then a turn more at or
\* below -pi
wrap_phis(next_veh_phis) ==
    LET less == IF next_veh_phis > 180 * Unit THEN next_veh_phis - 360 * Unit
                ELSE next_veh_phis
    IN IF less <= -180 * Unit THEN less + 360 * Unit ELSE less

\* predict_for_a_mode for one vehicle [x, y, v, phi]
predict_for_a_mode(vehs, mode) ==
    LET veh_xs == vehs[1]
        veh_ys == vehs[2]
        veh_vs == vehs[3]
        veh_phis == vehs[4]
        veh_xs_delta == fmul(fdiv(veh_vs, base_frequency), cos_deg(veh_phis))
        veh_ys_delta == fmul(fdiv(veh_vs, base_frequency), sin_deg(veh_phis))
    IN <<veh_xs + veh_xs_delta, veh_ys + veh_ys_delta, veh_vs,
         wrap_phis(veh_phis
                     + ToDeg(veh_phis_rad_delta(veh_vs, mode,
                                                middle_cond(veh_xs, veh_ys))))>>

\* veh_predict for one row: one slice of four per mode of the task
RECURSIVE veh_predict_from(_, _, _)
veh_predict_from(veh_infos, veh_mode_list, vehs_index) ==
    IF vehs_index >= Len(veh_mode_list) THEN <<>>
    ELSE predict_for_a_mode(
             py_slice(veh_infos, vehs_index * per_veh_info_dim,
                      (vehs_index + 1) * per_veh_info_dim),
             veh_mode_list[vehs_index + 1])
           \o veh_predict_from(veh_infos, veh_mode_list, vehs_index + 1)

\* what veh_predict raises: the slice for a mode beyond the vehicles of the
\* row is empty, and line 352 subscripts it
veh_predict_raises(row, task, n) ==
    IF Len(veh_infos_of(row, n)) < per_veh_info_dim * Len(VEHICLE_MODE_LIST[task])
    THEN "IndexError"
    ELSE "none"

veh_predict(veh_infos, task) ==
    veh_predict_from(veh_infos, VEHICLE_MODE_LIST[task], 0)

\* one returned array of compute_rewards
column_of(rows, name) == array([i \in 1..Len(rows) |-> rows[i][name]])

\* what compute_next_obses raises: the default mode hands self.ref_indexes
\* to np.expand_dims(axis=1), which rejects None, and then tracks along
\* path_list[0] first
compute_next_obses_raises(batch, mode, rp, ref_indexes, n) ==
    IF mode = "selecting" THEN tracking_error_vector_raises(rp, batch, n)
    ELSE IF ref_indexes = NoneArray THEN "AxisError"
    ELSE tracking_error_vector_raises([rp EXCEPT !.path = StaticPath(0)], batch, n)

\* self.ref_path after compute_next_obses: the loop of the default mode
\* assigns each entry of path_list to self.ref_path.path in turn
ref_path_after(raised, mode, rp, ref_indexes) ==
    IF mode = "selecting" \/ ref_indexes = NoneArray THEN rp
    ELSE IF raised # "none" THEN [rp EXCEPT !.path = StaticPath(0)]
    ELSE [rp EXCEPT !.path = StaticPath(LANE_NUMBER - 1)]

\* tracking_error_vector for the next ego state of one row
tracking_error_of(rp, next_ego_info) ==
    tracking_error_row(rp, next_ego_info[4], next_ego_info[5],
                       next_ego_info[6], next_ego_info[1])

\* next_tracking_infos: along self.ref_path.path when selecting, else
\* along the entry of path_list that the row's ref_indexes entry names
\* (zeros when it names none)
next_tracking_infos_of(next_ego_infos, mode, rp, ref_indexes, n) ==
    array([i \in 1..Len(next_ego_infos) |->
        IF mode # "selecting" /\ ref_indexes[i] \notin 0..(LANE_NUMBER - 1)
        THEN [j \in 1..((n + 1) * per_tracking_info_dim) |-> 0]
        ELSE tracking_error_of(
                 IF mode = "selecting" THEN rp
                 ELSE [rp EXCEPT !.path = StaticPath(ref_indexes[i])],
                 next_ego_infos[i])])

\* np.concatenate((next_ego_infos, next_tracking_infos, next_veh_infos), 1)
next_obses_of(abso, next_ego_infos, next_tracking_infos, task, n) ==
    array([i \in 1..Len(abso) |->
        next_ego_infos[i] \o next_tracking_infos[i]
          \o veh_predict(veh_infos_of(abso[i], n), task)])

\* compute_next_obses without the conversion of line 291
next_obses_absolute(abso, next_ego_infos, task, mode, rp, ref_indexes, n) ==
    next_obses_of(abso, next_ego_infos,
                  next_tracking_infos_of(next_ego_infos, mode, rp, ref_indexes, n),
                  task, n)

next_obses_after(abso, next_ego_infos, task, mode, rp, ref_indexes, n) ==
    convert_vehs_to_rela(
        next_obses_of(abso, next_ego_infos,
                      next_tracking_infos_of(next_ego_infos, mode, rp, ref_indexes, n),
                      task, n),
        n)

next_obses_from(abso, actions, task, mode, rp, ref_indexes, n) ==
    next_obses_after(
        abso,
        ego_predict(array([i \in 1..Len(abso) |-> ego_infos_of(abso[i])]), actions),
        task, mode, rp, ref_indexes, n)

\* compute_next_obses, given what the tracking errors of lines 268-287
\* raise: veh_predict (line 289) is reached when they raise nothing
compute_next_obses_as(raised, obses, actions, task, mode, rp, ref_indexes, n) ==
    [raised |-> IF raised # "none" THEN raised
                ELSE veh_predict_raises(obses[1], task, n),
     ref_path |-> ref_path_after(raised, mode, rp, ref_indexes),
     obses |-> IF raised = "none" /\ veh_predict_raises(obses[1], task, n) = "none"
               THEN next_obses_from(convert_vehs_to_abso(obses, n), actions,
                                    task, mode, rp, ref_indexes, n)
               ELSE NoneArray]

\* compute_next_obses: what it raises, the next observations when it
\* raises nothing, and self.ref_path when it returns or raises
compute_next_obses(obses, actions, task, mode, rp, ref_indexes, n) ==
    compute_next_obses_as(
        compute_next_obses_raises(Len(obses), mode, rp, ref_indexes, n),
        obses, actions, task, mode, rp, ref_indexes, n)

\* rollout_out, given the transformed actions, the five arrays of
\* compute_rewards and the outcome of compute_next_obses
rollout_out_as(acts, rew, nxt, obses) ==
    [actions |-> acts,
     raised |-> nxt.raised,
     ref_path |-> nxt.ref_path,
     obses |-> IF nxt.raised = "none" THEN nxt.obses ELSE obses,
     returned |->
         IF nxt.raised = "none"
         THEN <<nxt.obses,
                column_of(rew, "rewards"),
                column_of(rew, "punish_term_for_training"),
                column_of(rew, "real_punish_term"),
                column_of(rew, "veh2veh4real"),
                column_of(rew, "veh2road4real")>>
         ELSE NoneArray]

\* rollout_out with lines 112 and 113 exchanged: the rewards are those of the
\* observations the call is about to return
rollout_out_late(acts, nxt, obses, task, n) ==
    rollout_out_as(acts,
                   compute_rewards(IF nxt.raised = "none" THEN nxt.obses ELSE obses,
                                   acts, task, n),
                   nxt, obses)

rollout_out_advance_first(acts, obses, task, mode, rp, ref_indexes, n) ==
    rollout_out_late(acts,
                     compute_next_obses(obses, acts, task, mode, rp, ref_indexes, n),
                     obses, task, n)

rollout_out_with(acts, obses, task, mode, rp, ref_indexes, n) ==
    IF compute_rewards_raises(obses, n) # "none"
    THEN [actions |-> acts,
          raised |-> compute_rewards_raises(obses, n),
          ref_path |-> rp,
          obses |-> obses,
          returned |-> NoneArray]
    ELSE rollout_out_as(acts,
                        compute_rewards(obses, acts, task, n),
                        compute_next_obses(obses, acts, task, mode, rp,
                                           ref_indexes, n),
                        obses)

\* rollout_out: self.actions, what the call raises, what it returns and
\* self.obses, self.ref_path after it
rollout_out(obses, actions, task, mode, rp, ref_indexes, n) ==
    rollout_out_with(_action_transformation_for_end2end(actions),
                     obses, task, mode, rp, ref_indexes, n)

(***************************************************************************)
(* The bounds of the model and the values the callers hand in.             *)
(***************************************************************************)
\* rows of a batch
MaxBatch == 2

\* num_future_data
MaxFuture == 1

\* rollout_out calls on one model
MaxSteps == 2

\* set_path and add_traj calls on one model
MaxConfig == 1

\* ego segments [v_x, v_y, r, x, y, phi]: on the approach lane, fast, at
\* rest off the lane, and reversing while yawing inside the intersection
EgoRows ==
    << <<8000, 0, 0, 1875, -30000, 90000>>,
       <<34900, 0, 0, 5625, -40000, 90000>>,
       <<0, 0, 0, 9375, -26000, 90000>>,
       <<-2000, 200, 100, 0, 0, 135000>> >>

\* tracking segments for the current reference point
TrackRows == << <<0, 0, 0>>, <<500, -10000, -1000>> >>

\* the tracking entries of one look-ahead point
FutureRow == <<0, 2670, 0>>

\* other vehicles [x, y, v, phi] relative to the ego: 10 m or more away
FarVehs ==
    << <<12000, 0, 6000, 180000>>,
       <<-15000, 10000, 5000, -90000>>,
       <<0, 30000, 4000, -90000>> >>

\* a vehicle 1 m from the ego
NearVeh == <<1000, 0, 3000, 90000>>

RECURSIVE Repeat(_, _)
Repeat(row, k) == IF k <= 0 THEN <<>> ELSE row \o Repeat(row, k - 1)

RECURSIVE VehSegment(_, _, _)
VehSegment(near, k, v) ==
    IF k > v THEN <<>>
    ELSE (IF near /\ k = 1 THEN NearVeh ELSE FarVehs[((k - 1) % Len(FarVehs)) + 1])
           \o VehSegment(near, k + 1, v)

\* one well-formed row: 6 + 3 (1 + n) + 4 V entries
ObsRow(task, n, e, t, near) ==
    EgoRows[e] \o TrackRows[t] \o Repeat(FutureRow, n)
      \o VehSegment(near, 1, Len(VEHICLE_MODE_LIST[task]))

\* the rows handed in: four without look-ahead entries, one with them
ObsRows(task, n) ==
    IF n = 0
    THEN { ObsRow(task, n, c[1], c[2], c[3]) :
             c \in { <<1, 1, FALSE>>, <<2, 2, TRUE>>, <<3, 1, TRUE>>,
                     <<4, 2, FALSE>> } }
    ELSE { ObsRow(task, n, 1, 1, FALSE) }

\* batches of one row, and one batch of each larger size
ObsBatches(task, n) ==
    { <<row>> : row \in ObsRows(task, n) }
      \cup { [i \in 1..b |-> ObsRow(task, n, 1, 1, i = b)] : b \in 2..MaxBatch }

\* the observations handed to add_traj
TrajObsBatches(task, n) ==
    { <<ObsRow(task, n, 1, 1, FALSE)>> }
      \cup { <<ObsRow(task, n, 4, 2, FALSE)>> : k \in 1..(1 - n) }

\* per-row reference indices for a batch of b rows, or reset's default
RefIndexes(b) ==
    { [i \in 1..b |-> (k + i - 1) % LANE_NUMBER] :
        k \in IF b = 1 THEN {0, LANE_NUMBER - 1} ELSE {0} }
      \cup {NoneArray}

\* normalised actions [steer, a_x]: beyond the range, and inside it for the
\* steering while braking beyond it
ActionRows == { <<1200, 1200>>, <<-500, -2000>> }

ActionBatches(b) ==
    { [i \in 1..b |-> row] : row \in ActionRows }

\* a path handed to set_path('dyna_traj'): 200 samples 0.1 m apart
\* along the x axis
DynaPath ==
    << [i \in 1..200 |-> (i - 1) * 100], [i \in 1..200 |-> 0], [i \in 1..200 |-> 0] >>

\* the ReferencePath objects handed to add_traj
Trajectories(task) ==
    { ReferencePath(task, 1) }
      \cup { set_path(ReferencePath(task, 0), "dyna_traj", None, DynaPath) }

(***************************************************************************)
(* The state: the fields of one EnvironmentModel (its ReferencePath in     *)
(* ref_path); the last method called on it, with its arguments, what it   *)
(* raised and returned and, for rollout_out, the self.obses it found; and  *)
(* the two counters that bound the model.                                  *)
(***************************************************************************)
VARIABLES task, mode, obses, actions, ref_path, ref_indexes, num_future_data,
          reward_info, veh2veh_dists_last, called, called_with, called_on,
          raised, returned, steps, configs

vars == <<task, mode, obses, actions, ref_path, ref_indexes, num_future_data,
          reward_info, veh2veh_dists_last, called, called_with, called_on,
          raised, returned, steps, configs>>

\* 2.5 * np.ones([256, 32]): the shape and the value of every entry
dists_last_init == <<256, 32, 2500>>

\* EnvironmentModel(t, n): lines 79-94 assign the fields (line 86 draws the
\* index k of the reference path); line 95 reads the name rewards_mode,
\* which is neither a parameter (the parameter is costs_mode) nor a global,
\* and raises NameError, so line 96 assigns nothing.  The methods below are
\* specified over the instance these assignments make.
Init ==
    /\ task \in Tasks
    /\ num_future_data \in 0..MaxFuture
    /\ \E k \in 0..(LANE_NUMBER - 1) : ref_path = ReferencePath(task, k)
    /\ mode = None
    /\ obses = NoneArray
    /\ actions = NoneArray
    /\ ref_indexes = NoneArray
    /\ reward_info = None
    /\ veh2veh_dists_last = NoneArray
    /\ called = "__init__"
    /\ called_with = <<task, num_future_data>>
    /\ called_on = NoneArray
    /\ raised = "NameError"
    /\ returned = NoneArray
    /\ steps = 0
    /\ configs = 0

\* reset without line 101
Reset_keeping_actions(o, ri) ==
    /\ obses' = o
    /\ ref_indexes' = ri
    /\ reward_info' = None
    /\ veh2veh_dists_last' = dists_last_init
    /\ called' = "reset"
    /\ called_with' = <<o, ri>>
    /\ called_on' = NoneArray
    /\ raised' = "none"
    /\ returned' = NoneArray
    /\ UNCHANGED <<task, mode, actions, ref_path, num_future_data, steps, configs>>

\* reset that also puts the model back into the default mode
Reset_to_default_mode(o, ri) ==
    /\ obses' = o
    /\ ref_indexes' = ri
    /\ actions' = NoneArray
    /\ reward_info' = None
    /\ veh2veh_dists_last' = dists_last_init
    /\ mode' = None
    /\ called' = "reset"
    /\ called_with' = <<o, ri>>
    /\ called_on' = NoneArray
    /\ raised' = "none"
    /\ returned' = NoneArray
    /\ UNCHANGED <<task, ref_path, num_future_data, steps, configs>>

Reset(o, ri) ==
    /\ obses' = o
    /\ ref_indexes' = ri
    /\ actions' = NoneArray
    /\ reward_info' = None
    /\ veh2veh_dists_last' = dists_last_init
    /\ called' = "reset"
    /\ called_with' = <<o, ri>>
    /\ called_on' = NoneArray
    /\ raised' = "none"
    /\ returned' = NoneArray
    /\ UNCHANGED <<task, mode, ref_path, num_future_data, steps, configs>>

AddTraj(o, trajectory, m) ==
    /\ configs < MaxConfig
    /\ obses' = o
    /\ ref_path' = trajectory
    /\ mode' = m
    /\ called' = "add_traj"
    /\ called_with' = <<o, trajectory, m>>
    /\ called_on' = NoneArray
    /\ raised' = "none"
    /\ returned' = NoneArray
    /\ configs' = configs + 1
    /\ UNCHANGED <<task, actions, ref_indexes, num_future_data, reward_info,
                   veh2veh_dists_last, steps>>

\* self.ref_path.set_path(traj_mode, path_index, path)
SetPath(traj_mode, path_index, path) ==
    /\ configs < MaxConfig
    /\ ref_path' = set_path(ref_path, traj_mode, path_index, path)
    /\ called' = "set_path"
    /\ called_with' = <<traj_mode, path_index, path>>
    /\ called_on' = NoneArray
    /\ raised' = "none"
    /\ returned' = NoneArray
    /\ configs' = configs + 1
    /\ UNCHANGED <<task, mode, obses, actions, ref_indexes, num_future_data,
                   reward_info, veh2veh_dists_last, steps>>

\* rollout_out(a) on the observations held, while fewer than `most` calls
\* have been made
StepUpTo(a, most) ==
    /\ obses # NoneArray
    /\ steps < most
    /\ \E out \in {rollout_out(obses, a, task, mode, ref_path, ref_indexes,
                              num_future_data)} :
          /\ actions' = out.actions
          /\ obses' = out.obses
          /\ ref_path' = out.ref_path
          /\ raised' = out.raised
          /\ returned' = out.returned
    /\ called' = "rollout_out"
    /\ called_with' = <<a>>
    /\ called_on' = obses
    /\ steps' = steps + 1
    /\ UNCHANGED <<task, mode, ref_indexes, num_future_data, reward_info,
                   veh2veh_dists_last, configs>>

Step(a) == StepUpTo(a, MaxSteps)

\* rollout_out(a) before any observations are held: line 111 assigns
\* self.actions, then line 138 subscripts None
StepUnheld(a) ==
    /\ obses = NoneArray
    /\ steps < MaxSteps
    /\ actions' = _action_transformation_for_end2end(a)
    /\ raised' = "TypeError"
    /\ returned' = NoneArray
    /\ called' = "rollout_out"
    /\ called_with' = <<a>>
    /\ called_on' = obses
    /\ steps' = steps + 1
    /\ UNCHANGED <<task, mode, obses, ref_path, ref_indexes, num_future_data,
                   reward_info, veh2veh_dists_last, configs>>

Next ==
    \/ \E o \in ObsBatches(task, num_future_data) :
          \E ri \in RefIndexes(Len(o)) : Reset(o, ri)
    \/ \E o \in TrajObsBatches(task, num_future_data),
          trajectory \in Trajectories(task), m \in {None, "selecting"} :
          AddTraj(o, trajectory, m)
    \/ \E k \in {0, LANE_NUMBER - 1} : SetPath("static_traj", k, None)
    \/ SetPath("dyna_traj", None, DynaPath)
    \/ /\ obses # NoneArray
       /\ \E a \in ActionBatches(Len(obses)) : Step(a)
    \/ \E a \in ActionBatches(1) : StepUnheld(a)

Spec == Init /\ [][Next]_vars

(***************************************************************************)
(* The de-normalisation of the actions alone: rollout_out on a fresh       *)
(* model runs line 111 on its argument before line 138 raises.             *)
(***************************************************************************)
\* normalised action components: beyond, on and inside the clipping range
\* (multiples of 0.005, so that 0.4 s is on the grid)
NormValues == {-1500, -1050, -1000, -500, 0, 335, 1000, 1050, 1500}

NextActions ==
    /\ steps = 0
    /\ \E s \in NormValues, a \in NormValues : StepUnheld(<< <<s, a>> >>)

SpecActions == Init /\ [][NextActions]_vars

(***************************************************************************)
(* The functions and the methods of ReferencePath and VehicleDynamics,     *)
(* called on their own: on a ReferencePath(task) just constructed, or      *)
(* after one set_path.  called_with holds the arguments of the last call,  *)
(* returned what it returned and raised what it raised.                    *)
(***************************************************************************)
InitFunctions ==
    /\ task \in Tasks
    /\ num_future_data = 0
    /\ \E k \in 0..(LANE_NUMBER - 1) : ref_path = ReferencePath(task, k)
    /\ mode = None
    /\ obses = NoneArray
    /\ actions = NoneArray
    /\ ref_indexes = NoneArray
    /\ reward_info = None
    /\ veh2veh_dists_last = NoneArray
    /\ called = "ReferencePath"
    /\ called_with = <<task>>
    /\ called_on = NoneArray
    /\ raised = "none"
    /\ returned = NoneArray
    /\ steps = 0
    /\ configs = 0

\* a call that leaves every object as it is; one such call is followed
\* from each ReferencePath
Called(name, args, exception, result) ==
    /\ called \in {"ReferencePath", "set_path"}
    /\ called' = name
    /\ called_with' = args
    /\ raised' = exception
    /\ returned' = result
    /\ UNCHANGED <<task, mode, obses, actions, ref_path, ref_indexes,
                   num_future_data, reward_info, veh2veh_dists_last, called_on,
                   steps, configs>>

\* raw heading differences [degrees]: around -180 and 180, and one and two
\* turns away from them
PhiDiffs ==
    { d * Unit + e : d \in {-720, -541, -540, -360, -181, -180, -90, 0, 90, 180,
                            181, 360, 540, 541, 720},
                     e \in {-1, 0, 1} }

DealWithPhiDiff(d) ==
    Called("deal_with_phi_diff", <<d>>, "none", <<deal_with_phi_diff(d)>>)

\* look-ahead points asked of future_n_data
MaxLook == 3

\* a path of one sample handed to set_path('dyna_traj')
ShortPath == << <<0>>, <<0>>, <<0>> >>

\* a path of 50 samples along the x axis, 0.16 m apart, handed to
\* set_path('dyna_traj')
WidePath ==
    << [i \in 1..50 |-> (i - 1) * 160], [i \in 1..50 |-> 0], [i \in 1..50 |-> 0] >>

\* len(self.path[0])
path_len == Len(path_of(ref_path)[1])

\* starting indices for future_n_data: before, on and beyond the path
StartIndexes ==
    { -500, 0, 50, path_len - 100, path_len - 82, path_len - 2, path_len - 1,
      path_len, path_len + 500 }

\* self.future_n_data(current_indexs, n)
FutureNData(current_indexs, n) ==
    Called("future_n_data", <<current_indexs, n>>, "none",
           future_n_data(path_of(ref_path), current_indexs, n))

\* query points (xs, ys): beside the approach lane, inside the
\* intersection, halfway between two samples of DynaPath, beyond its end
QueryPoints ==
    { <<1875, -30000>>, <<-10000, 5000>>, <<0, 0>>, <<500, 0>>, <<496, 8>>,
      <<3504, -800>>, <<25000, 0>> }

QueryBatches ==
    { <<q>> : q \in QueryPoints } \cup { << <<800, 0>>, <<3504, -800>> >> }

\* self.find_closest_point(xs, ys): the indices and the points
FindClosestPoint(queries) ==
    Called("find_closest_point", <<queries>>, "none",
           << [i \in 1..Len(queries) |->
                 find_closest_point(path_of(ref_path), queries[i][1],
                                    queries[i][2], ratio_default)],
              [i \in 1..Len(queries) |->
                 closest_point(path_of(ref_path), queries[i][1], queries[i][2])] >>)

\* ego poses [x, y, phi, v] handed to tracking_error_vector
EgoPoses ==
    { << <<1875, -30000, 90000, 8000>> >>,
      << <<500, 200, 10000, 6000>> >>,
      << <<1875, -30000, 90000, 8000>>, <<-10000, 5000, 170000, 3000>> >> }

\* self.tracking_error_vector(ego_xs, ego_ys, ego_phis, ego_vs, n)
TrackingErrorVector(egos, n) ==
    Called("tracking_error_vector", <<egos, n>>,
           tracking_error_vector_raises(ref_path, Len(egos), n),
           IF tracking_error_vector_raises(ref_path, Len(egos), n) = "none"
           THEN tracking_error_vector(ref_path,
                                      [i \in 1..Len(egos) |-> egos[i][1]],
                                      [i \in 1..Len(egos) |-> egos[i][2]],
                                      [i \in 1..Len(egos) |-> egos[i][3]],
                                      [i \in 1..Len(egos) |-> egos[i][4]], n)
           ELSE NoneArray)

\* states [v_x, v_y, r, x, y, phi] handed to f_xu: coasting straight on
\* several headings, and cornering
DynStates ==
    { <<v, 0, 0, 1875, -30000, phi>> :
        v \in {1, 8000, 35000}, phi \in {0, 30000, 90000, 135000, -90000} }
      \cup { <<8000, 300, 200, 1875, -30000, 90000>> }

\* physical actions [steer, a_x] handed to f_xu
DynActions ==
    { <<0, a>> : a \in {-4150, -1000, -1, 0, 1, 2150} } \cup { <<200, 0>> }

\* VehicleDynamics.f_xu on one row: the next state, and the longitudinal
\* forces F_xf, F_xr of lines 53-54
Fxu(state, action, tau) ==
    Called("f_xu", <<state, action, tau>>, "none",
           << f_xu(<<state>>, <<action>>, tau)[1],
              <<F_xf(action[2]), F_xr(action[2])>> >>)

\* the modes predict_for_a_mode turns by, the straight ones that
\* VEHICLE_MODE_LIST names, and one that is none of them
CurvingModes == {"dl", "rd", "ur", "lu", "dr", "ru", "ul", "ld"}

StraightModes == {"du", "ud", "lr", "rl"}

GivenModes == CurvingModes \cup {"du", "ud", "xx"}

\* other vehicles [x, y, v, phi] in absolute coordinates: inside the
\* intersection, on an approach, on the boundary of the central square in x
\* and in y, and inside it next to a heading of 180 degrees on either side
GivenVehs ==
    { <<-1875, 10000, 6000, -90000>>, <<1875, -40000, 5000, 90000>>,
      <<25000, 1875, 6000, 180000>>, <<1875, -25000, 5000, 90000>>,
      <<12000, 1875, 6000, 180000>>, <<-12000, -1875, 6000, -179500>> }

\* self.predict_for_a_mode(vehs, mode) on one vehicle
PredictForAMode(vehs, m) ==
    Called("predict_for_a_mode", <<vehs, m>>, "none", predict_for_a_mode(vehs, m))

\* ego segments [v_x, v_y, r, x, y, phi] handed to compute_rewards: in the
\* lane and at its edge on the approach, inside the intersection near the
\* upper edge of the road to the left, on that road, on the road ahead at
\* its edge, and on the road to the right at its edge
RoadEgos ==
    { <<8000, 0, 0, 1875, -30000, 90000>>,
      <<8000, 0, 0, 500, -30000, 90000>>,
      <<5000, 0, 0, -10000, 11000, 180000>>,
      <<5000, 0, 0, -30000, 11000, 180000>>,
      <<5000, 0, 0, 500, 30000, 90000>>,
      <<5000, 0, 0, 30000, -500, 0>> }

\* self.compute_rewards(obses, actions) on one row with that ego segment and
\* the action [0, 0]: the five arrays returned
ComputeRewards(ego) ==
    \E rows \in { compute_rewards(
                      <<ego \o TrackRows[1]
                          \o VehSegment(FALSE, 1, Len(VEHICLE_MODE_LIST[task]))>>,
                      << <<0, 0>> >>, task, 0) } :
        Called("compute_rewards", <<ego>>, "none",
               <<column_of(rows, "rewards"),
                 column_of(rows, "punish_term_for_training"),
                 column_of(rows, "real_punish_term"),
                 column_of(rows, "veh2veh4real"),
                 column_of(rows, "veh2road4real")>>)

NextFunctions ==
    \/ \E ego \in RoadEgos : ComputeRewards(ego)
    \/ \E d \in PhiDiffs : DealWithPhiDiff(d)
    \/ \E p \in {DynaPath, ShortPath, WidePath} : SetPath("dyna_traj", None, p)
    \/ SetPath("static_traj", 1, None)
    \/ \E i \in StartIndexes, n \in 0..MaxLook : FutureNData(i, n)
    \/ \E q \in QueryBatches : FindClosestPoint(q)
    \/ \E e \in EgoPoses, n \in {0, 1} : TrackingErrorVector(e, n)
    \/ \E st \in DynStates, a \in DynActions, tau \in {50, 100} : Fxu(st, a, tau)
    \/ \E v \in GivenVehs, m \in GivenModes : PredictForAMode(v, m)

SpecFunctions == InitFunctions /\ [][NextFunctions]_vars

(***************************************************************************)
(* The model handed rows of another length than 6 + 3 (1 + n) + 4 V.       *)
(***************************************************************************)
\* a row with f look-ahead triples and v other vehicles
RowOf(f, v) ==
    EgoRows[1] \o TrackRows[1] \o Repeat(FutureRow, f) \o VehSegment(FALSE, 1, v)

\* batches of one row: a vehicle too many, a look-ahead triple too many, a
\* vehicle too few
MalformedBatches(maneuver, n) ==
    { <<RowOf(n, Len(VEHICLE_MODE_LIST[maneuver]) + 1)>>,
      <<RowOf(n + 1, Len(VEHICLE_MODE_LIST[maneuver]))>>,
      <<RowOf(n, Len(VEHICLE_MODE_LIST[maneuver]) - 1)>> }

NextMalformed ==
    \/ \E o \in MalformedBatches(task, num_future_data) :
          \E ri \in RefIndexes(Len(o)) : Reset(o, ri)
    \/ /\ obses # NoneArray
       /\ \E a \in ActionBatches(Len(obses)) : Step(a)

SpecMalformed == Init /\ [][NextMalformed]_vars

(***************************************************************************)
(* One row stepped again and again at full steering lock: the ego heading  *)
(* accumulates turn after turn.                                            *)
(***************************************************************************)
\* rollout_out calls on the circling model
MaxTurns == 60

\* normalised actions: full lock to the left, no change of speed asked for
FullLock == << <<1000, 333>> >>

\* one reset of the new model, then steps only
NextTurning ==
    \/ /\ called = "__init__"
       /\ \E ri \in RefIndexes(1) \ {NoneArray} :
             Reset(<<ObsRow(task, num_future_data, 1, 1, FALSE)>>, ri)
    \/ StepUpTo(FullLock, MaxTurns)

SpecTurning == Init /\ [][NextTurning]_vars

(***************************************************************************)
(* The properties.                                                         *)
(***************************************************************************)
\* a rollout_out call has just returned
Stepped == called = "rollout_out" /\ raised = "none"

\* the first column of the vehicle segment in a row (0-based offset)
VehOffset == ego_info_dim + per_tracking_info_dim * (num_future_data + 1)

\* the number of other vehicles in a row
VehCount(row) == (Len(row) - VehOffset) \div per_veh_info_dim

\* [x, y, v, phi] of the other vehicle k of a row, as the row encodes it
VehOf(row, k) ==
    SubSeq(row, VehOffset + per_veh_info_dim * (k - 1) + 1,
           VehOffset + per_veh_info_dim * k)

\* the offsets of the front and the rear point of a vehicle heading phi
CornerOffsets(phi) ==
    { <<d * fmul(lws, cos_deg(phi)), d * fmul(lws, sin_deg(phi))>> : d \in {1, -1} }

\* the squared distances between the ego's two points and the two points of
\* the other vehicle k of a (relative) row
CornerDistances(row, k) ==
    { square(VehOf(row, k)[1] + v[1] - e[1]) + square(VehOf(row, k)[2] + v[2] - e[2]) :
        e \in CornerOffsets(row[6]), v \in CornerOffsets(VehOf(row, k)[4]) }

AllCornersApart(row, d) ==
    \A k \in 1..VehCount(row) : \A q \in CornerDistances(row, k) : q >= square(d)

SomeCornerCloser(row, d) ==
    \E k \in 1..VehCount(row) : \E q \in CornerDistances(row, k) : q < square(d)

\* C1: for every row, the vehicle-to-vehicle training penalty that
\* rollout_out computed (its third return value less the road term) is 0
\* when every corner distance is at least 3.5 m, and the vehicle-to-vehicle
\* real penalty (fifth return value) is 0 when every one is at least 2.5 m
C1_ZeroWhenApart ==
    Stepped =>
        \A i \in 1..Len(called_on) :
            /\ AllCornersApart(called_on[i], 3500) =>
                   returned[3][i]
                     - veh2road4training(task, ego_infos_of(called_on[i])) = 0
            /\ AllCornersApart(called_on[i], 2500) => returned[5][i] = 0

\* C2: when some corner of another vehicle is closer than 2.5 m to an ego
\* corner, the fifth value rollout_out returns is greater than 0
C2_PositiveWhenClose ==
    Stepped =>
        \A i \in 1..Len(called_on) :
            SomeCornerCloser(called_on[i], 2500) => returned[5][i] > 0

\* the reward as the tracking deviations, the yaw rate and the
\* de-normalised action determine it
ExpectedReward(dy, dphi, dv, yaw_rate, steer, accel) ==
    -(fmul(800, square(dy)) + 30 * square(ToRad(dphi)) + fmul(50, square(dv))
        + 5 * square(steer) + fmul(50, square(accel))
        + fmul(20, square(yaw_rate)))

\* C3: for every row, the reward rollout_out returns is
\* -(0.8 dy^2 + 30 dphi_rad^2 + 0.05 dv^2 + 5 steer^2 + 0.05 accel^2
\*   + 0.02 yaw_rate^2) of the row's first tracking entries, its yaw rate and
\* the de-normalised action: a function of these six numbers only
C3_Reward ==
    Stepped =>
        \A i \in 1..Len(called_on) :
            returned[2][i]
              = ExpectedReward(called_on[i][ego_info_dim + 1],
                               called_on[i][ego_info_dim + 2],
                               called_on[i][ego_info_dim + 3],
                               called_on[i][3], actions[i][1], actions[i][2])

\* a step returned a reward in which all six terms are present, beside
\* penalties that are not zero
C3_Witness ==
    /\ Stepped
    /\ \A j \in {3, ego_info_dim + 1, ego_info_dim + 2, ego_info_dim + 3} :
           called_on[1][j] # 0
    /\ actions[1][1] # 0 /\ actions[1][2] # 0
    /\ returned[2][1] < 0
    /\ returned[3][1] # 0 /\ returned[4][1] # 0

\* the five arrays compute_rewards yields for a batch and its actions
RewardChannels(rows, acts) ==
    << column_of(compute_rewards(rows, acts, task, num_future_data), "rewards"),
       column_of(compute_rewards(rows, acts, task, num_future_data),
                 "punish_term_for_training"),
       column_of(compute_rewards(rows, acts, task, num_future_data),
                 "real_punish_term"),
       column_of(compute_rewards(rows, acts, task, num_future_data), "veh2veh4real"),
       column_of(compute_rewards(rows, acts, task, num_future_data), "veh2road4real") >>

\* C4: the reward and the penalties rollout_out returns are those of the
\* observations it found and the de-normalised action, and the observations
\* held afterwards are the ones returned beside them
C4_Order ==
    Stepped =>
        /\ SubSeq(returned, 2, 6) = RewardChannels(called_on, actions)
        /\ obses = returned[1]

\* a step after which the rewards of the observations now held would have
\* been different ones
C4_Witness ==
    /\ Stepped
    /\ RewardChannels(obses, actions)[1] # returned[2]
    /\ RewardChannels(obses, actions)[2] # returned[3]

\* C5: after a step the ego longitudinal speed, in the observations held
\* and in the ones returned, lies in [0, 35] m/s
C5_SpeedRange ==
    Stepped =>
        \A i \in 1..Len(obses) :
            /\ obses[i][1] >= 0 /\ obses[i][1] <= 35 * Unit
            /\ returned[1][i][1] >= 0 /\ returned[1][i][1] <= 35 * Unit

\* a step whose dynamics update left [0, 35] m/s
C5_Witness ==
    /\ Stepped
    /\ \E i \in 1..Len(called_on) :
           \/ prediction(<<ego_infos_of(called_on[i])>>, <<actions[i]>>,
                         base_frequency)[1][1] > 35 * Unit
           \/ prediction(<<ego_infos_of(called_on[i])>>, <<actions[i]>>,
                         base_frequency)[1][1] < 0

\* a value limited to [lo, hi]
Limited(x, lo, hi) == IF x < lo THEN lo ELSE IF x > hi THEN hi ELSE x

\* C6: rollout_out stores, for the normalised action (s, a) it is given,
\* the steering 0.4 s' and the acceleration 3 a' - 1 of the components
\* limited to [-1.05, 1.05]: within [-0.4, 0.4] and [-4, 2] for components
\* in [-1, 1], and within [-0.42, 0.42] and [-4.15, 2.15] for any input
C6_Denormalise ==
    called = "rollout_out" =>
        \A i \in 1..Len(actions) :
            /\ 10 * actions[i][1] = 4 * Limited(called_with[1][i][1], -1050, 1050)
            /\ actions[i][2] = 3 * Limited(called_with[1][i][2], -1050, 1050) - Unit
            /\ (called_with[1][i][1] >= -Unit /\ called_with[1][i][1] <= Unit)
                   => (actions[i][1] >= -400 /\ actions[i][1] <= 400)
            /\ (called_with[1][i][2] >= -Unit /\ called_with[1][i][2] <= Unit)
                   => (actions[i][2] >= -4 * Unit /\ actions[i][2] <= 2 * Unit)
            /\ actions[i][1] >= -420 /\ actions[i][1] <= 420
            /\ actions[i][2] >= -4150 /\ actions[i][2] <= 2150

\* an action beyond the clipping range on both components was stored at
\* the extremes
C6_Witness ==
    /\ called = "rollout_out"
    /\ called_with[1][1][1] > 1050 /\ actions[1][1] = 420
    /\ called_with[1][1][2] < -1050 /\ actions[1][2] = -4150

\* C7: after a step the observations held are the ones returned, and the
\* (x, y) of every other vehicle in them is its predicted absolute position
\* less the new ego position
C7_Relative ==
    Stepped =>
        /\ obses = returned[1]
        /\ \A i \in 1..Len(obses) : \A k \in 1..VehCount(obses[i]) :
               /\ VehOf(obses[i], k)[1]
                    = predict_for_a_mode(
                          << VehOf(called_on[i], k)[1] + called_on[i][4],
                             VehOf(called_on[i], k)[2] + called_on[i][5],
                             VehOf(called_on[i], k)[3],
                             VehOf(called_on[i], k)[4] >>,
                          VEHICLE_MODE_LIST[task][k])[1] - obses[i][4]
               /\ VehOf(obses[i], k)[2]
                    = predict_for_a_mode(
                          << VehOf(called_on[i], k)[1] + called_on[i][4],
                             VehOf(called_on[i], k)[2] + called_on[i][5],
                             VehOf(called_on[i], k)[3],
                             VehOf(called_on[i], k)[4] >>,
                          VEHICLE_MODE_LIST[task][k])[2] - obses[i][5]

\* a second step in a row, each of which moved the ego off the origin
C7_Witness ==
    /\ Stepped
    /\ steps = 2
    /\ called_on[1][5] # 0 /\ obses[1][5] # 0
    /\ obses[1][5] # called_on[1][5]
    /\ VehCount(obses[1]) > 0

\* what the ego position adds to column j of a row on the way from the
\* relative to the absolute form
EgoShift(row, j) ==
    IF j <= VehOffset THEN 0
    ELSE IF (j - VehOffset) % per_veh_info_dim = 1 THEN row[4]
    ELSE IF (j - VehOffset) % per_veh_info_dim = 2 THEN row[5]
    ELSE 0

\* C8: on the observations held, convert_vehs_to_rela undoes
\* convert_vehs_to_abso and the reverse, and each changes only the (x, y) of
\* the other vehicles, by the ego (x, y) of the row
C8_InversePair ==
    obses # NoneArray =>
        /\ convert_vehs_to_rela(convert_vehs_to_abso(obses, num_future_data),
                                num_future_data) = obses
        /\ convert_vehs_to_abso(convert_vehs_to_rela(obses, num_future_data),
                                num_future_data) = obses
        /\ \A i \in 1..Len(obses) : \A j \in 1..Len(obses[i]) :
               /\ convert_vehs_to_abso(obses, num_future_data)[i][j]
                    = obses[i][j] + EgoShift(obses[i], j)
               /\ convert_vehs_to_rela(obses, num_future_data)[i][j]
                    = obses[i][j] - EgoShift(obses[i], j)

\* observations held after a step, with the ego off both axes and other
\* vehicles present
C8_Witness ==
    /\ Stepped
    /\ obses[1][4] # 0 /\ obses[1][5] # 0
    /\ VehCount(obses[1]) > 0

\* the constructor, or reset with reference indices, or rollout_out after
\* such a reset, on a model no add_traj or set_path has touched
WithinUse ==
    /\ configs = 0
    /\ called = "reset" => ref_indexes # NoneArray
    /\ called = "rollout_out" => (called_on # NoneArray /\ ref_indexes # NoneArray)

\* C9: constructing the model, resetting it with a batch and reference
\* indices and stepping it raise no exception
C9_NoException == WithinUse => raised = "none"

\* C10: after reset(obses, ref_indexes) the observations and the reference
\* indices held are the arguments, the stored actions and the reward-info
\* cache are None, and the distance buffer is 2.5 in shape [256, 32] again
C10_Reset ==
    called = "reset" =>
        /\ obses = called_with[1]
        /\ ref_indexes = called_with[2]
        /\ actions = NoneArray
        /\ reward_info = None
        /\ veh2veh_dists_last = <<256, 32, (5 * Unit) \div 2>>

\* a reset of a model that had been stepped
C10_Witness ==
    /\ called = "reset"
    /\ steps > 0
    /\ obses # NoneArray

\* C11: what deal_with_phi_diff returns is greater than -180 and at most
\* 180 degrees
C11_WrapRange ==
    called = "deal_with_phi_diff" =>
        (returned[1] > -180 * Unit /\ returned[1] <= 180 * Unit)

\* C12: deal_with_phi_diff applied to what deal_with_phi_diff returned
\* gives the same value
C12_WrapIdempotent ==
    called = "deal_with_phi_diff" =>
        deal_with_phi_diff(returned[1]) = returned[1]

\* the sample [x, y, phi] of a path at a (0-based) index
Sample(path, idx) == <<path[1][idx + 1], path[2][idx + 1], path[3][idx + 1]>>

\* C13: future_n_data(i, n) returns n points, each of them the sample of
\* the path at an index from 0 to len(path) - 1
C13_LookAheadInPath ==
    called = "future_n_data" =>
        /\ Len(returned) = called_with[2]
        /\ \A j \in 1..Len(returned) :
               \E idx \in 0..(path_len - 1) :
                   returned[j] = Sample(path_of(ref_path), idx)

\* look-ahead points asked from an index beyond the end of a path
C13_Witness ==
    /\ called = "future_n_data"
    /\ called_with[1] >= path_len
    /\ called_with[2] = MaxLook
    /\ Len(returned) = MaxLook
    /\ path_len > 100

\* C14: the look-ahead point j of future_n_data(i, n) is the sample at
\* i + 80 j, or the final sample of the path (index len(path) - 1) once
\* i + 80 j is beyond it
C14_ClampToFinal ==
    (called = "future_n_data" /\ called_with[1] >= 0) =>
        \A j \in 1..Len(returned) :
            returned[j]
              = Sample(path_of(ref_path),
                       IF called_with[1] + 80 * j > path_len - 1
                       THEN path_len - 1
                       ELSE called_with[1] + 80 * j)

\* the squared distance of a query point to the sample at idx, on the grid
\* of 8 Units
SqDist(path, idx, q) ==
    ((q[1] - path[1][idx + 1]) \div 8) * ((q[1] - path[1][idx + 1]) \div 8)
      + ((q[2] - path[2][idx + 1]) \div 8) * ((q[2] - path[2][idx + 1]) \div 8)

\* idx is the first of the samples at multiples of the stride that are
\* nearest to q
FirstNearest(path, idx, q) ==
    \A k \in 0..((Len(path[1]) - 1) \div ratio_default) :
        /\ SqDist(path, k * ratio_default, q) >= SqDist(path, idx, q)
        /\ k * ratio_default < idx
               => SqDist(path, k * ratio_default, q) > SqDist(path, idx, q)

\* C15: for every query point find_closest_point returns a multiple of the
\* stride from 0 to len(path) - 1 that is the first nearest one among the
\* samples at multiples of the stride, and that sample; on the path along
\* the x axis no such sample is nearer in x
C15_Closest ==
    called = "find_closest_point" =>
        \A i \in 1..Len(called_with[1]) :
            /\ returned[1][i] % ratio_default = 0
            /\ returned[1][i] >= 0 /\ returned[1][i] <= path_len - 1
            /\ FirstNearest(path_of(ref_path), returned[1][i], called_with[1][i])
            /\ returned[2][i] = Sample(path_of(ref_path), returned[1][i])
            /\ ref_path.path \in {GivenPath(DynaPath), GivenPath(WidePath)} =>
                   \A k \in 0..((path_len - 1) \div ratio_default) :
                       Abs(called_with[1][i][1] - Sample(path_of(ref_path), k * ratio_default)[1])
                         >= Abs(called_with[1][i][1] - returned[2][i][1])

\* two query points at once on the path along the x axis with samples
\* 0.16 m apart: the first is as far from sample 0 as from sample 10 and is
\* answered with 0, the second is answered with 20
C15_Witness ==
    /\ called = "find_closest_point"
    /\ ref_path.path = GivenPath(WidePath)
    /\ Len(called_with[1]) = 2
    /\ called_with[1][1] = <<800, 0>>
    /\ SqDist(WidePath, 0, <<800, 0>>) = SqDist(WidePath, 10, <<800, 0>>)
    /\ returned[1][1] = 0
    /\ returned[1][2] = 20

\* C16: after set_path('dyna_traj', path=P) tracking_error_vector returns
\* 3 (1 + n) entries for every row
C16_DynaTracking ==
    (called = "tracking_error_vector" /\ ref_path.traj_mode = "dyna_traj") =>
        /\ raised = "none"
        /\ \A i \in 1..Len(called_with[1]) :
               Len(returned[i]) = 3 * (1 + called_with[2])

\* C17: f_xu on a state with v_x > 0, no lateral speed and no yaw rate,
\* under the action (0, 0), moves (x, y) by v_x tau along the heading and
\* leaves v_x, v_y, r and the heading as they are
C17_Coasting ==
    (/\ called = "f_xu"
     /\ called_with[2] = <<0, 0>>
     /\ called_with[1][2] = 0 /\ called_with[1][3] = 0
     /\ called_with[1][1] > 0) =>
        returned[1]
          = << called_with[1][1], 0, 0,
               called_with[1][4]
                 + fmul(called_with[3],
                        fmul(called_with[1][1], cos_deg(called_with[1][6]))),
               called_with[1][5]
                 + fmul(called_with[3],
                        fmul(called_with[1][1], sin_deg(called_with[1][6]))),
               called_with[1][6] >>

\* 8 m/s heading 90 degrees for a tenth of a second: 0.8 m along y
C17_Witness ==
    /\ called = "f_xu"
    /\ called_with = << <<8000, 0, 0, 1875, -30000, 90000>>, <<0, 0>>, 100 >>
    /\ returned[1][4] = 1875
    /\ returned[1][5] = -30000 + 800

\* C18: the longitudinal forces of f_xu are mass a_x / 2 each for
\* a_x < 0, and 0 (front) and mass a_x (rear) for a_x >= 0
C18_ForceSplit ==
    called = "f_xu" =>
        /\ called_with[2][2] < 0 =>
               returned[2] = << 706 * called_with[2][2], 706 * called_with[2][2] >>
        /\ called_with[2][2] >= 0 =>
               returned[2] = << 0, 1412 * called_with[2][2] >>

\* a call that brakes
C18_Witness ==
    /\ called = "f_xu"
    /\ called_with[2][2] < 0
    /\ returned[2][1] < 0
    /\ returned[2][1] = returned[2][2]

\* C19: predict_for_a_mode raises for a mode that is neither a curving nor
\* a straight one
C19_UnknownModeRaises ==
    (called = "predict_for_a_mode"
       /\ called_with[2] \notin CurvingModes \cup StraightModes) =>
        raised # "none"

\* C20: rollout_out on rows whose length is not 6 + 3 (1 + n) + 4 V, for
\* the n configured and the V modes of the task, raises
C20_MalformedRaises ==
    (/\ called = "rollout_out"
     /\ called_on # NoneArray
     /\ Len(called_on[1])
          # ego_info_dim + per_tracking_info_dim * (1 + num_future_data)
              + per_veh_info_dim * Len(VEHICLE_MODE_LIST[task])) =>
        raised # "none"
\* the tracking errors of the ego state in a row along a path: the current
\* reference point of tracking_error_vector
TrackedAlong(path, row) ==
    LET point == Sample(path, find_closest_point(path, row[4], row[5], ratio_default))
    IN <<two2one(task, row[4], row[5], point[1], point[2]),
         deal_with_phi_diff(row[6] - point[3]),
         row[1] - exp_v>>

\* the path a row of the batch is to be tracked along: the active path when
\* selecting, else the candidate its reference index names
OwnPath(i) ==
    IF mode = "selecting" THEN path_of(ref_path)
    ELSE path_lists[task][ref_indexes[i] + 1]

\* C21: a step on a batch with reference indices (default mode) or with a
\* static active path (selecting mode) returns, and the tracking segment of
\* every row returned is the tracking error of its new ego state along the
\* row's own candidate path (default mode) or along the active path
\* (selecting mode)
C21_OwnCandidate ==
    (/\ called = "rollout_out" /\ called_on # NoneArray
     /\ ref_path.traj_mode # "dyna_traj"
     /\ mode # "selecting" => ref_indexes # NoneArray) =>
        /\ raised = "none"
        /\ \A i \in 1..Len(called_on) :
               py_slice(tracking_infos_of(returned[1][i], num_future_data),
                        0, per_tracking_info_dim)
                 = TrackedAlong(OwnPath(i), returned[1][i])

\* C22: in the observations held after a step, the heading deviation from
\* the current reference point and from every look-ahead point is greater
\* than -180 and at most 180 degrees
C22_DeviationRange ==
    Stepped =>
        \A i \in 1..Len(obses) :
            /\ obses[i][ego_info_dim + 2] > -180 * Unit
            /\ obses[i][ego_info_dim + 2] <= 180 * Unit
            /\ \A k \in 1..num_future_data :
                   /\ obses[i][ego_info_dim + per_tracking_info_dim * k + 3] > -180 * Unit
                   /\ obses[i][ego_info_dim + per_tracking_info_dim * k + 3] <= 180 * Unit

LeftTurnRadius == CROSSROAD_SIZE \div 2 + LANE_WIDTH \div 2

RightTurnRadius == CROSSROAD_SIZE \div 2 - (5 * LANE_WIDTH) \div 2

\* strictly inside the central square
StrictlyInside(veh) ==
    /\ Abs(veh[1]) < CROSSROAD_SIZE \div 2
    /\ Abs(veh[2]) < CROSSROAD_SIZE \div 2

\* the change of heading in degrees of a vehicle in a mode
HeadingChange(veh, m) ==
    IF ~StrictlyInside(veh) THEN 0
    ELSE IF m \in {"dl", "rd", "ur", "lu"}
    THEN ToDeg(fdiv(fdiv(veh[3], LeftTurnRadius), 10 * Unit))
    ELSE IF m \in {"dr", "ru", "ul", "ld"}
    THEN -ToDeg(fdiv(fdiv(veh[3], RightTurnRadius), 10 * Unit))
    ELSE 0

\* C24: predict_for_a_mode moves the vehicle by speed/10 along its heading
\* and keeps its speed; it turns the heading (up to the whole turn that
\* brings it back within range) by +(speed / (CROSSROAD_SIZE/2 + 0.5
\* LANE_WIDTH)) / 10 rad for dl, rd, ur, lu and by -(speed / (CROSSROAD_SIZE/2
\* - 2.5 LANE_WIDTH)) / 10 rad for dr, ru, ul, ld when the vehicle is strictly
\* inside the central square, and keeps it otherwise
C24_VehPrediction ==
    called = "predict_for_a_mode" =>
        /\ raised = "none"
        /\ returned[1] = called_with[1][1]
             + fmul(fdiv(called_with[1][3], 10 * Unit), cos_deg(called_with[1][4]))
        /\ returned[2] = called_with[1][2]
             + fmul(fdiv(called_with[1][3], 10 * Unit), sin_deg(called_with[1][4]))
        /\ returned[3] = called_with[1][3]
        /\ (returned[4] - called_with[1][4]
              - HeadingChange(called_with[1], called_with[2])) % (360 * Unit) = 0
        /\ HeadingChange(called_with[1], called_with[2]) = 0
             => returned[4] = called_with[1][4]

\* a vehicle of mode 'ul' inside the central square, turned to the right
C24_Witness ==
    /\ called = "predict_for_a_mode"
    /\ called_with[2] = "ul"
    /\ StrictlyInside(called_with[1])
    /\ called_with[1][4] = -90 * Unit
    /\ returned[4] < -90 * Unit
    /\ returned[2] < called_with[1][2]

\* C25: unless a path handed to set_path('dyna_traj') is active, the active
\* path of the ReferencePath is the entry of path_list that its ref_index
\* names
C25_ActivePath ==
    ref_path.traj_mode # "dyna_traj" =>
        ref_path.path = StaticPath(ref_path.ref_index)

\* C26: the road part of the training penalty that compute_rewards returns
\* (the penalty less the part for the other vehicles) is the road penalty
\* it returns last
C26_RoadChannels ==
    called = "compute_rewards" =>
        returned[2][1]
          - veh2veh4training(VehSegment(FALSE, 1, Len(VEHICLE_MODE_LIST[task])))
          = returned[5][1]

\* C27: reset keeps the mode and the reference path, and so does
\* rollout_out in 'selecting' mode (in every mode it keeps the mode)
C27_ModeKept ==
    [][/\ called' = "reset" => (mode' = mode /\ ref_path' = ref_path)
       /\ called' = "rollout_out" =>
              /\ mode' = mode
              /\ mode = "selecting" => ref_path' = ref_path]_vars

\* a reset of a model that add_traj had put into 'selecting' mode and that
\* had been stepped
C27_Witness ==
    /\ called = "reset"
    /\ mode = "selecting"
    /\ steps > 0

====
